---- MODULE Spec2Model ----
(***************************************************************************)
(* Model of SpatialPatternRefactor.py: the layered spatial pattern         *)
(* analysis of Morgan et al., 2012.                                        *)
(*                                                                         *)
(* Number representation.  Coordinates and distances are integers.  A      *)
(* Euclidean distance dist = sqrt(s) is carried by its square s, so that   *)
(* every comparison the code makes on dist is made exactly on s.  A        *)
(* histogram bin inside cluster() is a float that only ever holds a count  *)
(* and is an integer here; every float that leaves cluster() (averages,    *)
(* sums over runs, ratios) is an exact rational <<num, den>> with den > 0  *)
(* in lowest terms.  A histogram is a function on 0 .. analysis_dist - 1,  *)
(* the indices of the Python list.                                         *)
(***************************************************************************)
EXTENDS Integers, Sequences, FiniteSets, TLC

VARIABLES
    pc,             \* position in the script / in cluster()
    analysis_dist,  \* global, line 87, incremented at line 287
    interval_num,   \* global, line 92
    exclude_dist,   \* global, line 82
    layer_num,      \* global, line 78
    sim_run_num,    \* global, line 99
    cell1,          \* global, line 73 (first argument of cluster() in SpecCluster)
    cell2,          \* global, line 74 (second argument of cluster() in SpecCluster)
    sp_data,        \* the cell list (sp_data / sp_data_mod: the same object)
    roi,            \* xmin, xmax, ymin, ymax returned by boundaries()
    raw_cluster,    \* local accumulator of cluster(), line 192
    seed_idx,       \* position of the outer loop of cluster(), line 193
    cmp_idx,        \* position of the inner loop of cluster(), line 200; 0: not inside
    main_raw_cluster, \* global raw_cluster, lines 293-296
    ybound_list,    \* global ybound_list, line 300
    runcount,       \* number of simulation runs completed in sim_iterate()
    sim_data,       \* sim_raw of the current run, line 255
    sim_cluster,    \* sim_cluster of the current run, lines 258-262
    sim_track,      \* running sum / average in sim_iterate(), line 252
    sp_output       \* global sp_output, line 306

vars == <<pc, analysis_dist, interval_num, exclude_dist, layer_num, sim_run_num,
          cell1, cell2, sp_data, roi, raw_cluster, seed_idx, cmp_idx,
          main_raw_cluster, ybound_list, runcount, sim_data, sim_cluster,
          sim_track, sp_output>>

(***************************************************************************)
(* Bounds of the model.                                                    *)
(***************************************************************************)
MaxCoord == 2       \* cluster(): x and y coordinates are 0 .. MaxCoord
FreeCells == 2      \* cluster(): cells in the list besides the two corner cells
MaxDist == 2        \* configured analysis_dist is 1 .. MaxDist
MaxInterval == 3    \* interval_num is 1 .. MaxInterval

Types == {1, 2}     \* cell type codes (neuron = 1, microglia = 3 in the demo run)

Abs(v) == IF v < 0 THEN -v ELSE v

NoCells == <<>>
NoHist == <<>>
NoRoi == [xmin |-> 0, xmax |-> 0, ymin |-> 0, ymax |-> 0]

(***************************************************************************)
(* boundaries(), lines 132-153.                                            *)
(***************************************************************************)
RECURSIVE ScanMin(_, _, _), ScanMax(_, _, _)
\* the running minimum of the scan at lines 135-143, from position k on
ScanMin(vals, k, m) ==
    IF k > Len(vals) THEN m
    ELSE ScanMin(vals, k + 1, IF vals[k] < m THEN vals[k] ELSE m)

ScanMax(vals, k, m) ==
    IF k > Len(vals) THEN m
    ELSE ScanMax(vals, k + 1, IF vals[k] > m THEN vals[k] ELSE m)

Extrema(data) ==
    LET xs == [k \in 1..Len(data) |-> data[k].x]
        ys == [k \in 1..Len(data) |-> data[k].y]
    IN [xmin |-> ScanMin(xs, 1, xs[1]), xmax |-> ScanMax(xs, 1, xs[1]),
        ymin |-> ScanMin(ys, 1, ys[1]), ymax |-> ScanMax(ys, 1, ys[1])]

\* an annotation that measures the y edge distances from the x coordinate
AnnotateSwapped(cell, r) ==
    [type |-> cell.type, x |-> cell.x, y |-> cell.y, layer |-> cell.layer,
     xmin_dist |-> Abs(cell.x - r.xmin), xmax_dist |-> Abs(r.xmax - cell.x),
     ymin_dist |-> Abs(cell.x - r.ymin), ymax_dist |-> Abs(r.ymax - cell.x)]

\* lines 144-152 and 237-245: the four edge distances appended to a cell
Annotate(cell, r) ==
    [type |-> cell.type, x |-> cell.x, y |-> cell.y, layer |-> cell.layer,
     xmin_dist |-> Abs(cell.x - r.xmin), xmax_dist |-> Abs(r.xmax - cell.x),
     ymin_dist |-> Abs(cell.y - r.ymin), ymax_dist |-> Abs(r.ymax - cell.y)]

boundaries(data) ==
    LET r == Extrema(data)
    IN [data |-> [k \in 1..Len(data) |-> Annotate(data[k], r)], roi |-> r]

(***************************************************************************)
(* cluster(), lines 190-211.                                               *)
(***************************************************************************)
ZeroHist == [i \in 0..(analysis_dist - 1) |-> 0]

Dist2(a, b) == (a.x - b.x) * (a.x - b.x) + (a.y - b.y) * (a.y - b.y)

\* a seed test with >= where the code has >
SeedEligibleNonStrict(cell, seed_type) ==
    /\ cell.type = seed_type
    /\ cell.xmin_dist >= exclude_dist
    /\ cell.xmax_dist >= exclude_dist
    /\ cell.ymin_dist >= exclude_dist
    /\ cell.ymax_dist >= exclude_dist

\* lines 194-196
SeedEligible(cell, seed_type) ==
    /\ cell.type = seed_type
    /\ cell.xmin_dist > exclude_dist
    /\ cell.xmax_dist > exclude_dist
    /\ cell.ymin_dist > exclude_dist
    /\ cell.ymax_dist > exclude_dist

\* line 204: dist > 0 and dist < analysis_dist, on s = dist^2
InRange(s) == s > 0 /\ analysis_dist > 0 /\ s < analysis_dist * analysis_dist

RECURSIVE LeastCeil(_, _)
\* the least k >= from with k * interval_num >= sqrt(s) * (analysis_dist - 1)
LeastCeil(s, k) ==
    IF k * k * interval_num * interval_num
         >= s * (analysis_dist - 1) * (analysis_dist - 1)
    THEN k
    ELSE LeastCeil(s, k + 1)

RECURSIVE LeastCeilFull(_, _)
\* a bin mapping with the numerator analysis_dist in place of analysis_dist - 1
LeastCeilFull(s, k) ==
    IF k * k * interval_num * interval_num >= s * analysis_dist * analysis_dist
    THEN k
    ELSE LeastCeilFull(s, k + 1)

ArrayTargetFull(s) == LeastCeilFull(s, 0)

\* lines 205-207: int(math.ceil(dist * (analysis_dist - 1) / interval_num))
ArrayTarget(s) == LeastCeil(s, 0)

\* an increment of the target bin alone
IncrementOnly(h, target) ==
    [i \in DOMAIN h |-> IF i = target THEN h[i] + 1 ELSE h[i]]

\* lines 208-209: for insert in range(array_target, analysis_dist)
IncrementFrom(h, target) ==
    [i \in DOMAIN h |-> IF i >= target THEN h[i] + 1 ELSE h[i]]

\* lines 201-204: the pair reaches the division by interval_num
PairCounts(cell, compare_cell, compare_type) ==
    compare_cell.type = compare_type /\ InRange(Dist2(cell, compare_cell))

\* lines 201-209 for one seed and one compare cell (interval_num # 0)
PairUpdate(h, cell, compare_cell, compare_type) ==
    IF PairCounts(cell, compare_cell, compare_type)
    THEN IncrementFrom(h, ArrayTarget(Dist2(cell, compare_cell)))
    ELSE h

RECURSIVE InnerLoop(_, _, _, _, _), OuterLoop(_, _, _, _, _)
\* lines 200-209 from compare position j on
InnerLoop(h, cell, data, compare_type, j) ==
    IF j > Len(data) THEN h
    ELSE InnerLoop(PairUpdate(h, cell, data[j], compare_type),
                   cell, data, compare_type, j + 1)

\* lines 193-209 from seed position i on
OuterLoop(h, data, seed_type, compare_type, i) ==
    IF i > Len(data) THEN h
    ELSE OuterLoop(IF SeedEligible(data[i], seed_type)
                   THEN InnerLoop(h, data[i], data, compare_type, 1)
                   ELSE h,
                   data, seed_type, compare_type, i + 1)

\* the histogram cluster(data, seed_type, compare_type) returns
cluster(data, seed_type, compare_type) ==
    OuterLoop(ZeroHist, data, seed_type, compare_type, 1)

\* line 205-207 divides by interval_num: ZeroDivisionError when it is 0
ClusterRaises(data, seed_type, compare_type) ==
    /\ interval_num = 0
    /\ \E i, j \in 1..Len(data) :
          /\ SeedEligible(data[i], seed_type)
          /\ PairCounts(data[i], data[j], compare_type)

(***************************************************************************)
(* cluster() step by step: one action per iteration of its loops.          *)
(***************************************************************************)
main_vars == <<main_raw_cluster, ybound_list, runcount, sim_data, sim_cluster,
               sim_track, sp_output>>
config_vars == <<analysis_dist, interval_num, exclude_dist, layer_num,
                 sim_run_num, cell1, cell2>>

\* line 192
ClusterBegin ==
    /\ pc = "cluster_begin"
    /\ raw_cluster' = ZeroHist
    /\ seed_idx' = 1
    /\ cmp_idx' = 0
    /\ pc' = "cluster"
    /\ UNCHANGED <<config_vars, sp_data, roi, main_vars>>

\* lines 193-196: the outer loop takes the next cell and tests it
ClusterSeed ==
    /\ pc = "cluster"
    /\ cmp_idx = 0
    /\ seed_idx <= Len(sp_data)
    /\ IF SeedEligible(sp_data[seed_idx], cell1)
       THEN cmp_idx' = 1 /\ seed_idx' = seed_idx
       ELSE cmp_idx' = 0 /\ seed_idx' = seed_idx + 1
    /\ UNCHANGED <<pc, raw_cluster, config_vars, sp_data, roi, main_vars>>

\* lines 200-209: the inner loop handles one compare cell
ClusterPair ==
    /\ pc = "cluster"
    /\ cmp_idx >= 1
    /\ IF interval_num = 0 /\ PairCounts(sp_data[seed_idx], sp_data[cmp_idx], cell2)
       THEN /\ pc' = "error"
            /\ UNCHANGED <<raw_cluster, seed_idx, cmp_idx>>
       ELSE /\ raw_cluster' = PairUpdate(raw_cluster, sp_data[seed_idx],
                                         sp_data[cmp_idx], cell2)
            /\ IF cmp_idx = Len(sp_data)
               THEN cmp_idx' = 0 /\ seed_idx' = seed_idx + 1
               ELSE cmp_idx' = cmp_idx + 1 /\ seed_idx' = seed_idx
            /\ pc' = pc
    /\ UNCHANGED <<config_vars, sp_data, roi, main_vars>>

\* line 211
ClusterReturn ==
    /\ pc = "cluster"
    /\ cmp_idx = 0
    /\ seed_idx > Len(sp_data)
    /\ pc' = "cluster_done"
    /\ UNCHANGED <<raw_cluster, seed_idx, cmp_idx, config_vars, sp_data, roi,
                   main_vars>>

RawCells == [type : Types, x : 0..MaxCoord, y : 0..MaxCoord, layer : {1}]

\* The input file is sorted on y (line 50); the lists of this specification
\* are sorted on (y, x, type) and list no cell twice.
CellKey(cell) == (cell.y * (MaxCoord + 1) + cell.x) * 3 + cell.type

SortedCells(raw) == \A k \in 1..(Len(raw) - 1) : CellKey(raw[k]) < CellKey(raw[k + 1])

\* The cell lists of SpecCluster: a cell in the lowest and one in the highest
\* corner of the counting frame, and FreeCells cells anywhere in between.
ClusterInputs ==
    {<<low>> \o free \o <<high>> :
        low \in {c \in RawCells : c.x = 0 /\ c.y = 0},
        high \in {c \in RawCells : c.x = MaxCoord /\ c.y = MaxCoord},
        free \in {f \in [1..FreeCells -> RawCells] : SortedCells(f)}}

InitCluster ==
    /\ pc = "cluster_begin"
    /\ \E raw \in ClusterInputs :
          /\ sp_data = boundaries(raw).data
          /\ roi = boundaries(raw).roi
    /\ analysis_dist \in {c + 1 : c \in 1..MaxDist}
    /\ interval_num \in 1..MaxInterval
    /\ exclude_dist = 0
    /\ layer_num = 1
    /\ sim_run_num = 1
    /\ cell1 = 1
    /\ cell2 \in Types
    /\ raw_cluster = NoHist
    /\ seed_idx = 0
    /\ cmp_idx = 0
    /\ main_raw_cluster = NoHist
    /\ ybound_list = <<>>
    /\ runcount = 0
    /\ sim_data = NoCells
    /\ sim_cluster = NoHist
    /\ sim_track = NoHist
    /\ sp_output = NoHist

NextCluster == ClusterBegin \/ ClusterSeed \/ ClusterPair \/ ClusterReturn

SpecCluster == InitCluster /\ [][NextCluster]_vars

(***************************************************************************)
(* Floats that are not counts: exact rationals <<num, den>>, den > 0.      *)
(***************************************************************************)
RECURSIVE GCD(_, _)
GCD(a, b) == IF b = 0 THEN a ELSE GCD(b, a % b)

\* the rational n / d in lowest terms, d # 0 (-0.0 and 0.0 are the same value)
Rat(n, d) ==
    LET g == GCD(Abs(n), Abs(d))
    IN IF d > 0 THEN <<n \div g, d \div g>> ELSE <<(0 - n) \div g, (0 - d) \div g>>

Zero == <<0, 1>>
RatAdd(p, q) == Rat(p[1] * q[2] + q[1] * p[2], p[2] * q[2])
RatDiv(p, q) == Rat(p[1] * q[2], p[2] * q[1])

\* a list of counts as the list of floats it is
AsFloats(h) == [i \in DOMAIN h |-> Rat(h[i], 1)]

ZeroFloats == [i \in 0..(analysis_dist - 1) |-> Zero]

(***************************************************************************)
(* cluster_average(), lines 216-220.                                       *)
(***************************************************************************)
\* a combination that keeps the sum and leaves out the division by 2
cluster_sum(cluster1, cluster2) ==
    [i \in 0..(analysis_dist - 1) |-> Rat(cluster1[i] + cluster2[i], 1)]

cluster_average(cluster1, cluster2) ==
    [i \in 0..(analysis_dist - 1) |-> Rat(cluster1[i] + cluster2[i], 2)]

\* lines 292-296 and 258-262: the histogram of one cell set
\* (the same branch is written twice in the source)
SymmetricCluster(data) ==
    IF cell1 = cell2
    THEN AsFloats(cluster(data, cell1, cell1))
    ELSE cluster_average(cluster(data, cell1, cell2), cluster(data, cell2, cell1))

SymmetricRaises(data) ==
    IF cell1 = cell2
    THEN ClusterRaises(data, cell1, cell1)
    ELSE ClusterRaises(data, cell1, cell2) \/ ClusterRaises(data, cell2, cell1)

(***************************************************************************)
(* layer_ybound(), lines 159-185.  A band is the list [max, min, id]; the  *)
(* model keeps it as the sequence <<max, min, id>>, Python index i being   *)
(* position i + 1.                                                         *)
(***************************************************************************)
\* lines 162-165: the y values of the cells labelled layer
LayerList(data, layer) ==
    SelectSeq([k \in 1..Len(data) |-> data[k]], LAMBDA c : c.layer = layer)

\* lines 166-173
RawBand(data, layer) ==
    LET ys == [k \in 1..Len(LayerList(data, layer)) |-> LayerList(data, layer)[k].y]
    IN <<ScanMax(ys, 1, ys[1]), ScanMin(ys, 1, ys[1]), layer>>

RawBands(data) ==
    [layer \in 1..(IF layer_num > 0 THEN layer_num ELSE 0) |-> RawBand(data, layer)]

\* line 166: layer_list[0] of an empty list raises IndexError, not caught
LayerRaises(data) ==
    \E layer \in 1..layer_num : Len(LayerList(data, layer)) = 0

\* lines 178-181: the shared boundary of band layer and band layer + 1.
\* The sum is even for every cell set of this model, and the mean exact.
StitchPair(yb, layer) ==
    LET layer_bound == (yb[layer][2] + yb[layer + 1][1]) \div 2
    IN [yb EXCEPT ![layer][2] = layer_bound, ![layer + 1][1] = layer_bound]

\* line 182: ybound_list[0][0], ybound_list[0][layer_num - 1] = ymax, ymin.
\* The first target is assigned, then the second: index layer_num - 1 of the
\* three-element band 0 exists for layer_num <= 3 and raises IndexError
\* beyond, which line 183 swallows with the first assignment already made.
PinEdges(yb, ymin, ymax) ==
    LET first == [yb EXCEPT ![1][1] = ymax]
    IN IF layer_num <= 3 THEN [first EXCEPT ![1][layer_num] = ymin] ELSE first

RECURSIVE StitchLoop(_, _, _, _)
\* lines 176-184 from iteration layer on (layer counts from 1 here)
StitchLoop(yb, layer, ymin, ymax) ==
    IF layer > layer_num - 1 THEN yb
    ELSE StitchLoop(PinEdges(StitchPair(yb, layer), ymin, ymax),
                    layer + 1, ymin, ymax)

layer_ybound(data, ymin, ymax) == StitchLoop(RawBands(data), 1, ymin, ymax)

(***************************************************************************)
(* sim_gen(), lines 224-231, and sim_boundaries(), lines 236-246.          *)
(***************************************************************************)
\* random.uniform(a, b) is a + (b - a) * random() with random() in [0, 1):
\* a point from a towards b, whichever is larger, b itself reached only by
\* rounding.  The model draws the end a or the middle.
Uniform(a, b) == {a, (a + b) \div 2}

\* a generator that draws the coordinates and forgets the labels
SimCellsUnlabelled(cell, xmin, xmax, yb) ==
    {[type |-> 1, x |-> xr, y |-> yr, layer |-> 1] :
        xr \in Uniform(xmin, xmax),
        yr \in Uniform(yb[cell.layer][1], yb[cell.layer][2])}

\* lines 227-230 for one cell: every outcome of the two draws
SimCells(cell, xmin, xmax, yb) ==
    {[type |-> cell.type, x |-> xr, y |-> yr, layer |-> cell.layer] :
        xr \in Uniform(xmin, xmax),
        yr \in Uniform(yb[cell.layer][1], yb[cell.layer][2])}

RECURSIVE SimLists(_, _, _, _, _)
\* the lists sim_gen() can have built after the first k cells
SimLists(data, k, xmin, xmax, yb) ==
    IF k = 0 THEN {<<>>}
    ELSE {Append(prefix, c) :
            prefix \in SimLists(data, k - 1, xmin, xmax, yb),
            c \in SimCells(data[k], xmin, xmax, yb)}

sim_gen(data, xmin, xmax, yb) == SimLists(data, Len(data), xmin, xmax, yb)

\* lines 227-228: ybound_list[cell[3] - 1] raises IndexError past the list
SimGenRaises(data, yb) ==
    \E k \in 1..Len(data) : data[k].layer > Len(yb)

sim_boundaries(data, r) == [k \in 1..Len(data) |-> Annotate(data[k], r)]

(***************************************************************************)
(* sim_correct(), lines 273-281.                                           *)
(***************************************************************************)
\* line 276-280: a zero divisor raises ZeroDivisionError, the bare except
\* passes, and the slot keeps the 0. it was created with
sim_correct(observed, simulated) ==
    [i \in 0..(analysis_dist - 1) |->
        IF simulated[i] = Zero THEN Zero ELSE RatDiv(observed[i], simulated[i])]

(***************************************************************************)
(* The script, lines 284-323, and sim_iterate(), lines 250-269.            *)
(***************************************************************************)
cluster_vars == <<raw_cluster, seed_idx, cmp_idx>>

\* line 287
Increment ==
    /\ pc = "start"
    /\ analysis_dist' = analysis_dist + 1
    /\ pc' = "boundaries"
    /\ UNCHANGED <<interval_num, exclude_dist, layer_num, sim_run_num, cell1,
                   cell2, sp_data, roi, cluster_vars, main_vars>>

\* line 290 (line 133 raises IndexError on an empty list)
Boundaries ==
    /\ pc = "boundaries"
    /\ IF Len(sp_data) = 0
       THEN pc' = "error" /\ UNCHANGED <<sp_data, roi>>
       ELSE /\ sp_data' = boundaries(sp_data).data
            /\ roi' = boundaries(sp_data).roi
            /\ pc' = "observed"
    /\ UNCHANGED <<config_vars, cluster_vars, main_vars>>

\* lines 292-296
Observed ==
    /\ pc = "observed"
    /\ IF SymmetricRaises(sp_data)
       THEN pc' = "error" /\ UNCHANGED main_raw_cluster
       ELSE /\ main_raw_cluster' = SymmetricCluster(sp_data)
            /\ pc' = "layers"
    /\ UNCHANGED <<config_vars, sp_data, roi, cluster_vars, ybound_list,
                   runcount, sim_data, sim_cluster, sim_track, sp_output>>

\* line 300
LayerYBound ==
    /\ pc = "layers"
    /\ IF LayerRaises(sp_data)
       THEN pc' = "error" /\ UNCHANGED ybound_list
       ELSE /\ ybound_list' = layer_ybound(sp_data, roi.ymin, roi.ymax)
            /\ pc' = "sim_begin"
    /\ UNCHANGED <<config_vars, sp_data, roi, cluster_vars, main_raw_cluster,
                   runcount, sim_data, sim_cluster, sim_track, sp_output>>

\* line 252
SimIterateBegin ==
    /\ pc = "sim_begin"
    /\ sim_track' = ZeroFloats
    /\ runcount' = 0
    /\ pc' = "sim_loop"
    /\ UNCHANGED <<config_vars, sp_data, roi, cluster_vars, main_raw_cluster,
                   ybound_list, sim_data, sim_cluster, sp_output>>

\* lines 253-255, the inner call: one more run, its cell set drawn
SimGen ==
    /\ pc = "sim_loop"
    /\ runcount < sim_run_num
    /\ IF SimGenRaises(sp_data, ybound_list)
       THEN pc' = "error" /\ UNCHANGED sim_data
       ELSE /\ sim_data' \in sim_gen(sp_data, roi.xmin, roi.xmax, ybound_list)
            /\ pc' = "sim_annotate"
    /\ UNCHANGED <<config_vars, sp_data, roi, cluster_vars, main_raw_cluster,
                   ybound_list, runcount, sim_cluster, sim_track, sp_output>>

\* lines 255-257, the outer call
SimBoundaries ==
    /\ pc = "sim_annotate"
    /\ sim_data' = sim_boundaries(sim_data, roi)
    /\ pc' = "sim_cluster"
    /\ UNCHANGED <<config_vars, sp_data, roi, cluster_vars, main_raw_cluster,
                   ybound_list, runcount, sim_cluster, sim_track, sp_output>>

\* lines 258-266: the histogram of the run, added to the running sum; the
\* cell set of the run is not read again
SimCluster ==
    /\ pc = "sim_cluster"
    /\ IF SymmetricRaises(sim_data)
       THEN pc' = "error" /\ UNCHANGED <<sim_cluster, sim_track, runcount, sim_data>>
       ELSE /\ sim_cluster' = SymmetricCluster(sim_data)
            /\ sim_track' = [i \in 0..(analysis_dist - 1) |->
                                RatAdd(sim_track[i], SymmetricCluster(sim_data)[i])]
            /\ runcount' = runcount + 1
            /\ sim_data' = NoCells
            /\ pc' = "sim_loop"
    /\ UNCHANGED <<config_vars, sp_data, roi, cluster_vars, main_raw_cluster,
                   ybound_list, sp_output>>

\* lines 267-269 and 301: the sum divided by sim_run_num
\* (ZeroDivisionError when it is 0 and there is a bin to divide)
SimIterateEnd ==
    /\ pc = "sim_loop"
    /\ runcount >= sim_run_num
    /\ IF sim_run_num = 0 /\ analysis_dist > 0
       THEN pc' = "error" /\ UNCHANGED sim_track
       ELSE /\ sim_track' = [i \in 0..(analysis_dist - 1) |->
                                RatDiv(sim_track[i], Rat(sim_run_num, 1))]
            /\ pc' = "correct"
    /\ UNCHANGED <<config_vars, sp_data, roi, cluster_vars, main_raw_cluster,
                   ybound_list, runcount, sim_data, sim_cluster, sp_output>>

\* line 306
SimCorrect ==
    /\ pc = "correct"
    /\ sp_output' = sim_correct(main_raw_cluster, sim_track)
    /\ pc' = "output"
    /\ UNCHANGED <<config_vars, sp_data, roi, cluster_vars, main_raw_cluster,
                   ybound_list, runcount, sim_data, sim_cluster, sim_track>>

\* lines 313-323: the spreadsheet is written
Output ==
    /\ pc = "output"
    /\ pc' = "done"
    /\ UNCHANGED <<config_vars, sp_data, roi, cluster_vars, main_vars>>

NextMain ==
    \/ Increment \/ Boundaries \/ Observed \/ LayerYBound \/ SimIterateBegin
    \/ SimGen \/ SimBoundaries \/ SimCluster \/ SimIterateEnd \/ SimCorrect
    \/ Output

\* what the variables outside the script's reach hold at the start
MainIdle ==
    /\ roi = NoRoi
    /\ raw_cluster = NoHist
    /\ seed_idx = 0
    /\ cmp_idx = 0
    /\ main_raw_cluster = NoHist
    /\ ybound_list = <<>>
    /\ runcount = 0
    /\ sim_data = NoCells
    /\ sim_cluster = NoHist
    /\ sim_track = NoHist
    /\ sp_output = NoHist

MaxRuns == 2        \* sim_run_num is 1 .. MaxRuns

\* The cell lists of Spec: three cells on a diagonal, of any types; with two
\* layers the top cell is layer 1 and the others layer 2.
MainPositions == <<[x |-> 0, y |-> 0], [x |-> 1, y |-> 1], [x |-> 2, y |-> 3]>>

MainInputs(layers) ==
    {[k \in 1..Len(MainPositions) |->
        [type |-> types[k], x |-> MainPositions[k].x, y |-> MainPositions[k].y,
         layer |-> IF layers = 2 /\ MainPositions[k].y < 3 THEN 2 ELSE 1]] :
     types \in [1..Len(MainPositions) -> Types]}

Init ==
    /\ pc = "start"
    /\ analysis_dist \in 1..MaxDist
    /\ interval_num = analysis_dist
    /\ exclude_dist = 0
    /\ layer_num \in {1, 2}
    /\ sim_run_num \in 1..MaxRuns
    /\ cell1 = 1
    /\ cell2 \in Types
    /\ sp_data \in MainInputs(layer_num)
    /\ MainIdle

Spec == Init /\ [][NextMain]_vars

(***************************************************************************)
(* The script on the cell sets of the end-to-end scenario.                 *)
(***************************************************************************)
ScenarioXs == {0, 10, 50}
ScenarioYs == {0, 20}

InitScenario ==
    /\ pc = "start"
    /\ analysis_dist = 20
    /\ interval_num = 20
    /\ exclude_dist = 0
    /\ layer_num = 1
    /\ sim_run_num = 1
    /\ cell1 = 1
    /\ cell2 = 1
    /\ sp_data \in [1..3 -> [type : {1}, x : ScenarioXs, y : ScenarioYs, layer : {1}]]
    /\ MainIdle

SpecScenario == InitScenario /\ [][NextMain]_vars

(***************************************************************************)
(* The script on parameters that may be zero or negative.                  *)
(***************************************************************************)
ParamValues == -1..1

InitParams ==
    /\ pc = "start"
    /\ analysis_dist \in ParamValues
    /\ interval_num \in ParamValues \ {-1}
    /\ exclude_dist = 0
    /\ layer_num \in ParamValues
    /\ sim_run_num \in ParamValues
    /\ cell1 = 1
    /\ cell2 \in Types
    /\ sp_data \in MainInputs(1)
    /\ MainIdle

SpecParams == InitParams /\ [][NextMain]_vars

(***************************************************************************)
(* layer_ybound() on its own.                                              *)
(***************************************************************************)
MaxLayers == 4      \* layer_num is 1 .. MaxLayers
MaxLayerCells == 5  \* at most this many cells
MaxLayerY == 5      \* y coordinates are 0, 2 .. 2 * MaxLayerY

\* Cell lists sorted on descending y, no two cells level, labelled from the
\* top down with every layer 1 .. layers present: layer k lies above layer
\* k + 1.  The y values are even, which makes every layer boundary whole.
LayerInputs(layers) ==
    {[k \in 1..n |-> [type |-> 1, x |-> 0, y |-> 2 * ys[k], layer |-> labels[k]]] :
        <<n, ys, labels>> \in
            {t \in UNION {{<<m, y, l>> :
                            y \in {f \in [1..m -> 0..MaxLayerY] :
                                      \A k \in 1..(m - 1) : f[k] > f[k + 1]},
                            l \in {g \in [1..m -> 1..layers] :
                                      /\ g[1] = 1
                                      /\ g[m] = layers
                                      /\ \A k \in 1..(m - 1) :
                                            g[k + 1] \in {g[k], g[k] + 1}}} :
                          m \in layers..MaxLayerCells} : TRUE}}

InitLayer ==
    /\ pc = "layers"
    /\ analysis_dist = 2
    /\ interval_num = 1
    /\ exclude_dist = 0
    /\ layer_num \in 1..MaxLayers
    /\ sim_run_num = 1
    /\ cell1 = 1
    /\ cell2 = 1
    /\ \E raw \in LayerInputs(layer_num) :
          /\ sp_data = boundaries(raw).data
          /\ roi = boundaries(raw).roi
    /\ raw_cluster = NoHist
    /\ seed_idx = 0
    /\ cmp_idx = 0
    /\ main_raw_cluster = ZeroFloats
    /\ ybound_list = <<>>
    /\ runcount = 0
    /\ sim_data = NoCells
    /\ sim_cluster = NoHist
    /\ sim_track = NoHist
    /\ sp_output = NoHist

NextLayer == LayerYBound

SpecLayer == InitLayer /\ [][NextLayer]_vars

(***************************************************************************)
(* sim_correct() on its own.                                               *)
(***************************************************************************)
MaxObserved == 4    \* bins of the observed histogram are 0 .. MaxObserved
MaxSimulated == 2   \* bins of the simulated average are 0 .. MaxSimulated

InitCorrect ==
    /\ pc = "correct"
    /\ analysis_dist = MaxDist + 1
    /\ interval_num = MaxDist
    /\ exclude_dist = 0
    /\ layer_num = 1
    /\ sim_run_num = 1
    /\ cell1 = 1
    /\ cell2 = 1
    /\ sp_data = NoCells
    /\ roi = NoRoi
    /\ raw_cluster = NoHist
    /\ seed_idx = 0
    /\ cmp_idx = 0
    /\ main_raw_cluster \in [0..(analysis_dist - 1) -> {Rat(v, 1) : v \in 0..MaxObserved}]
    /\ ybound_list = <<>>
    /\ runcount = 1
    /\ sim_data = NoCells
    /\ sim_cluster = NoHist
    /\ sim_track \in [0..(analysis_dist - 1) -> {Rat(v, 1) : v \in 0..MaxSimulated}]
    /\ sp_output = NoHist

NextCorrect == SimCorrect \/ Output

SpecCorrect == InitCorrect /\ [][NextCorrect]_vars

(***************************************************************************)
(* Properties of cluster(), checked under SpecCluster.                     *)
(***************************************************************************)
InCluster == pc \in {"cluster", "cluster_done"}

\* the seed cell and the compare cell of the pair the inner loop is at
AtPair == pc = "cluster" /\ cmp_idx >= 1
PairDist2 == Dist2(sp_data[seed_idx], sp_data[cmp_idx])
Configured == analysis_dist - 1

\* C1: the histogram of cluster() never decreases with the index, after
\* every processed pair and on return: H[i] <= H[i+1] for 0 <= i < the
\* configured analysis_dist, H having analysis_dist + 1 bins.
C1_Monotone ==
    InCluster =>
        /\ DOMAIN raw_cluster = 0..Configured
        /\ \A i \in 0..(Configured - 1) : raw_cluster[i] <= raw_cluster[i + 1]

C1_Witness ==
    /\ pc = "cluster_done"
    /\ \E i \in 0..(Configured - 1) : raw_cluster[i] < raw_cluster[i + 1]
    /\ raw_cluster[Configured] >= 2

\* C6: a pair at distance 0, or at a distance greater than the configured
\* analysis_dist, changes no bin.
C6_SkippedPairs ==
    [][(AtPair /\ (PairDist2 = 0 \/ PairDist2 > Configured * Configured))
          => raw_cluster' = raw_cluster]_vars

\* C8: a cell of the seed type is used as a seed exactly when each of its
\* four edge distances is strictly greater than exclude_dist, and only such a
\* cell changes a bin.
AllEdgesExceed(cell) ==
    \A d \in {cell.xmin_dist, cell.xmax_dist, cell.ymin_dist, cell.ymax_dist} :
        d - exclude_dist >= 1

C8_SeedIff ==
    [][/\ (pc = "cluster" /\ cmp_idx = 0 /\ seed_idx <= Len(sp_data)
            /\ sp_data[seed_idx].type = cell1)
          => ((cmp_idx' = 1 /\ seed_idx' = seed_idx)
                <=> AllEdgesExceed(sp_data[seed_idx]))
       /\ (pc = "cluster" /\ raw_cluster' # raw_cluster)
          => (cmp_idx >= 1 /\ AllEdgesExceed(sp_data[seed_idx]))]_vars

\* a seed is inside its inner loop and has counted a pair, after a cell of the
\* seed type with an edge distance equal to exclude_dist was passed over
C8_Witness ==
    /\ AtPair
    /\ \E i \in DOMAIN raw_cluster : raw_cluster[i] > 0
    /\ \E k \in 1..(seed_idx - 1) :
          /\ sp_data[k].type = cell1
          /\ exclude_dist \in {sp_data[k].xmin_dist, sp_data[k].xmax_dist,
                                sp_data[k].ymin_dist, sp_data[k].ymax_dist}

\* C10: a pair of a seed and a cell of the compare type at distance
\* 0 < d <= configured analysis_dist adds 1 to every bin b with
\* b >= ceil(d * analysis_dist / interval_num), that is with
\* b * interval_num >= d * analysis_dist, and to no other; the histogram
\* keeps the indices 0 .. analysis_dist.
C10_BinMapping ==
    [][/\ (AtPair /\ sp_data[cmp_idx].type = cell2
            /\ PairDist2 > 0 /\ PairDist2 <= Configured * Configured)
          => \A b \in 0..Configured :
                raw_cluster'[b] = raw_cluster[b] +
                    (IF b * interval_num * b * interval_num
                          >= PairDist2 * Configured * Configured
                     THEN 1 ELSE 0)
       /\ pc = "cluster" => DOMAIN raw_cluster' = 0..Configured]_vars

\* cluster() has returned a histogram whose first counted bin lies strictly
\* inside 1 .. analysis_dist - 1, with interval_num different from analysis_dist
C10_Witness ==
    /\ pc = "cluster_done"
    /\ interval_num # Configured
    /\ \E b \in 1..(Configured - 1) :
          /\ raw_cluster[b - 1] = 0
          /\ raw_cluster[b] = 1
          /\ raw_cluster[Configured] = 1

(***************************************************************************)
(* Properties of layer_ybound(), checked under SpecLayer.                  *)
(***************************************************************************)
LayerYs(layer) == {sp_data[k].y : k \in {j \in 1..Len(sp_data) : sp_data[j].layer = layer}}
LayerMin(layer) == CHOOSE y \in LayerYs(layer) : \A z \in LayerYs(layer) : y <= z
LayerMax(layer) == CHOOSE y \in LayerYs(layer) : \A z \in LayerYs(layer) : y >= z

\* C2: the bands layer_ybound() returns tile [ymin, ymax]: band 1 starts at
\* ymax, the last band ends at ymin, and band k ends where band k + 1 starts,
\* at the mean of layer k's lowest and layer k + 1's highest y.
C2_LayerTiling ==
    pc = "sim_begin" =>
        /\ Len(ybound_list) = layer_num
        /\ ybound_list[1][1] = roi.ymax
        /\ ybound_list[layer_num][2] = roi.ymin
        /\ \A k \in 1..(layer_num - 1) :
              /\ ybound_list[k][2] = ybound_list[k + 1][1]
              /\ 2 * ybound_list[k][2] = LayerMin(k) + LayerMax(k + 1)

(***************************************************************************)
(* Properties of sim_correct(), checked under SpecCorrect.                 *)
(***************************************************************************)
\* the undefined value: no rational has the denominator 0
Undefined == <<0, 0>>

\* C3: sim_correct() returns observed[i] / simulated[i] where simulated[i]
\* is not 0, and the undefined value, which no ratio equals, where it is 0.
C3_ZeroDivisor ==
    pc \in {"output", "done"} =>
        \A i \in 0..(analysis_dist - 1) :
            IF sim_track[i][1] = 0
            THEN sp_output[i] = Undefined
            ELSE /\ sp_output[i][2] > 0
                 /\ sp_output[i][1] * sim_track[i][1] * main_raw_cluster[i][2]
                      = main_raw_cluster[i][1] * sim_track[i][2] * sp_output[i][2]

(***************************************************************************)
(* Properties of the script, checked under SpecScenario.                   *)
(***************************************************************************)
\* the cell set of the scenario: (0,0), (10,0), (50,0), type 1, layer 1
ScenarioCells ==
    /\ Len(sp_data) = 3
    /\ <<sp_data[1].x, sp_data[2].x, sp_data[3].x>> = <<0, 10, 50>>
    /\ \A k \in 1..3 : sp_data[k].y = 0 /\ sp_data[k].type = 1 /\ sp_data[k].layer = 1

ObservedDone == pc \notin {"start", "boundaries", "observed", "error"}

\* C4 as claimed: the histogram of the scenario is 0 in bins 0..9 and 2 in
\* bins 10..20.
C4_Scenario ==
    (ScenarioCells /\ ObservedDone) =>
        main_raw_cluster = [i \in 0..20 |-> IF i >= 10 THEN <<2, 1>> ELSE <<0, 1>>]

\* C4 as amended: boundaries() puts every cell of the scenario at distance 0
\* from the ymin and the ymax edge, which does not exceed exclude_dist = 0;
\* no cell is a seed and the 21 bins of the histogram are all 0.
C4_ScenarioNoSeed ==
    (ScenarioCells /\ ObservedDone) =>
        /\ \A k \in 1..3 : sp_data[k].ymin_dist = 0 /\ sp_data[k].ymax_dist = 0
        /\ main_raw_cluster = [i \in 0..20 |-> <<0, 1>>]

C4_Witness == ScenarioCells /\ pc = "layers" /\ DOMAIN main_raw_cluster = 0..20

(***************************************************************************)
(* Properties of the script, checked under SpecParams.                     *)
(***************************************************************************)
ConfiguredDist == IF pc = "start" THEN analysis_dist ELSE analysis_dist - 1

InvalidParameter ==
    sim_run_num <= 0 \/ ConfiguredDist <= 0 \/ interval_num <= 0 \/ layer_num <= 0

\* C5: with a parameter that is zero or negative the run goes to the error
\* state with nothing computed: no observed histogram, no layer bands, no
\* simulation, no baseline returned by sim_iterate(), no ratio, no output.
C5_Rejected ==
    InvalidParameter =>
        /\ pc \in {"start", "boundaries", "observed", "error"}
        /\ main_raw_cluster = NoHist
        /\ ybound_list = <<>>
        /\ sim_track = NoHist
        /\ sp_output = NoHist

(***************************************************************************)
(* Properties of the script, checked under Spec.                           *)
(***************************************************************************)
\* C7: sim_gen() returns a list as long as its input whose k-th cell has the
\* type and the layer of the k-th input cell and coordinates of its own, and
\* leaves the input as it was.
C7_SimGenLabels ==
    [][(pc = "sim_loop" /\ pc' = "sim_annotate") =>
          /\ Len(sim_data') = Len(sp_data)
          /\ \A k \in 1..Len(sp_data) :
                /\ DOMAIN sim_data'[k] = {"type", "x", "y", "layer"}
                /\ sim_data'[k].type = sp_data[k].type
                /\ sim_data'[k].layer = sp_data[k].layer
          /\ sp_data' = sp_data]_vars

\* sim_gen() has returned cells of both types and both layers, one of them
\* moved away from where the input has it
C7_Witness ==
    /\ pc = "sim_annotate"
    /\ {sim_data[k].type : k \in 1..Len(sim_data)} = Types
    /\ {sim_data[k].layer : k \in 1..Len(sim_data)} = {1, 2}
    /\ \E k \in 1..Len(sim_data) :
          sim_data[k].x # sp_data[k].x /\ sim_data[k].y # sp_data[k].y

\* the histogram v is the count a / the mean of the counts a and b
IsCount(v, a) == v[2] > 0 /\ v[1] = a * v[2]
IsMean(v, a, b) == v[2] > 0 /\ 2 * v[1] = (a + b) * v[2]

Symmetric(h, data) ==
    /\ DOMAIN h = 0..(analysis_dist - 1)
    /\ \A i \in 0..(analysis_dist - 1) :
          IF cell1 = cell2
          THEN IsCount(h[i], cluster(data, cell1, cell1)[i])
          ELSE IsMean(h[i], cluster(data, cell1, cell2)[i],
                      cluster(data, cell2, cell1)[i])

\* C9: the observed histogram and the histogram of every simulation run are
\* cluster(cells, cell1, cell1) when cell1 = cell2, and bin by bin the mean
\* of cluster(cells, cell1, cell2) and cluster(cells, cell2, cell1) when not,
\* on the same cell set.
C9_SymmetryAveraging ==
    [][/\ (pc = "observed" /\ pc' = "layers") => Symmetric(main_raw_cluster', sp_data)
       /\ (pc = "sim_cluster" /\ pc' = "sim_loop") => Symmetric(sim_cluster', sim_data)]_vars

\* two types, and both the observed pass and a simulation run have averaged
\* an odd sum
C9_Witness ==
    /\ pc = "sim_loop"
    /\ runcount >= 1
    /\ cell1 # cell2
    /\ \E i \in DOMAIN main_raw_cluster : main_raw_cluster[i][2] = 2
    /\ \E i \in DOMAIN sim_cluster : sim_cluster[i][2] = 2

====
